---- MODULE Spec2Model ----
(***************************************************************************)
(* The IBC controller contract (contracts/controller/src/contract.rs) as a *)
(* state machine.  The host runs one entry point at a time, to completion, *)
(* against the contract's storage; an entry point that returns Err has its *)
(* storage writes discarded by the host.  Every entry point is an operator *)
(* from (storage, env, info, msg) to a result record, and every action of  *)
(* the model is one invocation of an entry point by the host.              *)
(***************************************************************************)
EXTENDS Integers, Sequences, FiniteSets, TLC

VARIABLES storage, now, last, emitted

vars == <<storage, now, last, emitted>>

(***************************************************************************)
(* Bounds of the model.                                                    *)
(***************************************************************************)
\* block time runs over 0..MaxTime (seconds)
MaxTime == 1
\* expires_in of ProposeNewOwner is drawn from 0..MaxExpires
MaxExpires == 1

(***************************************************************************)
(* Program constants.                                                      *)
(***************************************************************************)
MIN_TIMEOUT == 1
MAX_TIMEOUT == 31556926

\* env!("CARGO_PKG_NAME") / env!("CARGO_PKG_VERSION"): the package's own name
\* and version.  The manifest is not part of the sources; the name is the one
\* migrate() matches on, and the version is a version later than every
\* version of the migration table.
CONTRACT_NAME == "ibc-controller"
CONTRACT_VERSION == "current"

\* the timeout the test fixture instantiates with (contract.rs:182)
TEST_TIMEOUT == 360

(***************************************************************************)
(* Input domains.                                                          *)
(***************************************************************************)
Addrs == {"owner", "alice", "bob"}
\* a string deps.api.addr_validate rejects
BadAddr == "BAD ADDR"
\* proposal_id: u64, used as a map key only
ProposalIds == {1, 2}
\* (channel_id, messages) of an IbcExecuteProposal: the test's one-message
\* proposal on channel-0, and a two-message proposal on another channel whose
\* messages are not in sorted order.  The remote commands are opaque.
SubmitInputs == {[channel_id |-> "channel-0", messages |-> <<"m1">>],
                 [channel_id |-> "channel-1", messages |-> <<"m2", "m1">>]}
TimeoutInputs == {MIN_TIMEOUT - 1, MIN_TIMEOUT, MAX_TIMEOUT, MAX_TIMEOUT + 1}
\* error texts a failed acknowledgement may carry
AckErrors == {"remote error"}
\* (name, version) tags a predecessor deployment may have left in storage
LegacyVersions == {[contract |-> "ibc-controller", version |-> "0.1.0"],
                   [contract |-> "other-contract", version |-> "0.1.0"]}

(***************************************************************************)
(* Option<T>: None is the empty sequence, Some(v) the one-element one.     *)
(***************************************************************************)
None == <<>>
Some(v) == <<v>>
IsSome(o) == o # <<>>
Unwrap(o) == o[1]

(***************************************************************************)
(* IbcProposalState and its Display tags (controller.rs).                  *)
(***************************************************************************)
InProgress == "in_progress"
Succeed == "succeed"
Failed == "failed"
IbcProposalState == {InProgress, Succeed, Failed}

(***************************************************************************)
(* Storage: the items of crate::state used by contract.rs.                 *)
(* PROPOSAL_STATE is a Map<u64, _>: a function whose domain is the set of  *)
(* keys that have an entry.                                                *)
(***************************************************************************)
EmptyMap == [i \in {} |-> InProgress]

EmptyStorage ==
    [CONFIG |-> None,
     PROPOSAL_STATE |-> EmptyMap,
     OWNERSHIP_PROPOSAL |-> None,
     LAST_ERROR |-> None,
     contract_info |-> None]

\* Map::has
has(map, k) == k \in DOMAIN map
\* Map::save
save(map, k, v) == (k :> v) @@ map

(***************************************************************************)
(* Results of an entry point.  An Err carries the storage as the handler   *)
(* left it, which the host then discards, and the fields of the error      *)
(* variant (err_data).                                                     *)
(***************************************************************************)
Ok(st, msgs, attrs) ==
    [err |-> "ok", err_data |-> <<>>, storage |-> st, messages |-> msgs,
     attributes |-> attrs, data |-> <<>>]
ErrWith(e, data, st) ==
    [err |-> e, err_data |-> data, storage |-> st, messages |-> <<>>,
     attributes |-> <<>>, data |-> <<>>]
\* Ok(Binary) of a query, which gets a read-only view of the storage
OkBinary(st, binary) == [Ok(st, <<>>, <<>>) EXCEPT !.data = binary]
Err(e, st) == ErrWith(e, <<>>, st)

\* faulty variant: the writes of a failed invocation are kept
HostCommit_keeps_writes(res, old) == res.storage

\* the host commits the writes of a successful invocation only
HostCommit(res, old) == IF res.err = "ok" THEN res.storage ELSE old

\* deps.api.addr_validate
addr_validate(s) == s \in Addrs

\* cw2::set_contract_version / get_contract_version
set_contract_version(st, name, version) ==
    [st EXCEPT !.contract_info = Some([contract |-> name, version |-> version])]

(***************************************************************************)
(* instantiate                                                             *)
(***************************************************************************)
\* faulty variant: the upper limit is taken as exclusive
instantiate_exclusive(st, msg) ==
    LET s1 == set_contract_version(st, CONTRACT_NAME, CONTRACT_VERSION)
    IN  IF ~(MIN_TIMEOUT <= msg.timeout /\ msg.timeout < MAX_TIMEOUT)
        THEN Err("TimeoutLimitsError", s1)
        ELSE IF ~addr_validate(msg.owner)
        THEN Err("Std(InvalidAddress)", s1)
        ELSE Ok([s1 EXCEPT !.CONFIG =
                    Some([owner |-> msg.owner, timeout |-> msg.timeout])],
                <<>>,
                <<<<"action", "instantiate">>>>)

\* faulty variant: no lower limit on the timeout
instantiate_no_min(st, msg) ==
    LET s1 == set_contract_version(st, CONTRACT_NAME, CONTRACT_VERSION)
    IN  IF ~(msg.timeout <= MAX_TIMEOUT)
        THEN Err("TimeoutLimitsError", s1)
        ELSE IF ~addr_validate(msg.owner)
        THEN Err("Std(InvalidAddress)", s1)
        ELSE Ok([s1 EXCEPT !.CONFIG =
                    Some([owner |-> msg.owner, timeout |-> msg.timeout])],
                <<>>,
                <<<<"action", "instantiate">>>>)

instantiate(st, msg) ==
    LET s1 == set_contract_version(st, CONTRACT_NAME, CONTRACT_VERSION)
    IN  IF ~(MIN_TIMEOUT <= msg.timeout /\ msg.timeout <= MAX_TIMEOUT)
        THEN Err("TimeoutLimitsError", s1)
        ELSE IF ~addr_validate(msg.owner)
        THEN Err("Std(InvalidAddress)", s1)
        ELSE Ok([s1 EXCEPT !.CONFIG =
                    Some([owner |-> msg.owner, timeout |-> msg.timeout])],
                <<>>,
                <<<<"action", "instantiate">>>>)

(***************************************************************************)
(* The wire payload: to_binary(&IbcProposal { id, messages }) flattens the *)
(* record into one byte string; from_binary is what the receiver (and the  *)
(* test) does with it.                                                     *)
(***************************************************************************)
to_binary(p) == <<p.id>> \o p.messages
from_binary(b) == [id |-> Head(b), messages |-> Tail(b)]

\* IbcTimeout::from(env.block.time.plus_seconds(secs)): a timestamp-only
\* deadline.  Block times are far below the u64 range of Timestamp.
plus_seconds(time, secs) == time + secs

(***************************************************************************)
(* The ownership helpers of astroport::common, called by execute.          *)
(***************************************************************************)
propose_new_owner(st, info, env, new_owner, expires_in, owner) ==
    IF info.sender # owner
    THEN Err("Unauthorized", st)
    ELSE IF ~addr_validate(new_owner)
    THEN Err("Std(InvalidAddress)", st)
    ELSE IF new_owner = owner
    THEN Err("Std(NewOwnerSame)", st)
    ELSE Ok([st EXCEPT !.OWNERSHIP_PROPOSAL =
                Some([owner |-> new_owner, ttl |-> env.time + expires_in])],
            <<>>,
            <<<<"action", "propose_new_owner">>, <<"new_owner", new_owner>>>>)

drop_ownership_proposal(st, info, owner) ==
    IF info.sender # owner
    THEN Err("Unauthorized", st)
    ELSE Ok([st EXCEPT !.OWNERSHIP_PROPOSAL = None],
            <<>>,
            <<<<"action", "drop_ownership_proposal">>>>)

\* faulty variant: the config is written back without the new owner
claim_ownership_cb_keeps_owner(st, new_owner) ==
    IF ~IsSome(st.CONFIG)
    THEN Err("Std(NotFound)", st)
    ELSE Ok(st, <<>>, <<>>)

\* faulty variant: the config is rebuilt around the new owner, with the
\* timeout left at its default
claim_ownership_cb_resets_timeout(st, new_owner) ==
    IF ~IsSome(st.CONFIG)
    THEN Err("Std(NotFound)", st)
    ELSE Ok([st EXCEPT !.CONFIG = Some([owner |-> new_owner, timeout |-> 0])],
            <<>>, <<>>)

\* the closure execute hands to claim_ownership:
\* CONFIG.update(|v| { v.owner = new_owner; Ok(v) })
claim_ownership_cb(st, new_owner) ==
    IF ~IsSome(st.CONFIG)
    THEN Err("Std(NotFound)", st)
    ELSE Ok([st EXCEPT !.CONFIG = Some([Unwrap(@) EXCEPT !.owner = new_owner])],
            <<>>, <<>>)

\* claim_ownership(deps, info, env, OWNERSHIP_PROPOSAL, cb), with the closure
\* above as cb
claim_ownership(st, info, env) ==
    IF ~IsSome(st.OWNERSHIP_PROPOSAL)
    THEN Err("Std(NotFound)", st)
    ELSE LET p == Unwrap(st.OWNERSHIP_PROPOSAL)
         IN  IF info.sender # p.owner
             THEN Err("Unauthorized", st)
             ELSE IF env.time > p.ttl
             THEN Err("ExpiredProposal", st)
             ELSE LET s1 == [st EXCEPT !.OWNERSHIP_PROPOSAL = None]
                      r == claim_ownership_cb(s1, p.owner)
                  IN  IF r.err # "ok"
                      THEN r
                      ELSE Ok(r.storage,
                              <<>>,
                              <<<<"action", "claim_ownership">>,
                                <<"new_owner", p.owner>>>>)

(***************************************************************************)
(* execute                                                                 *)
(***************************************************************************)
\* the packet an accepted IbcExecuteProposal sends
SendPacket(env, msg, config) ==
    [channel_id |-> msg.channel_id,
     data |-> to_binary([id |-> msg.proposal_id, messages |-> msg.messages]),
     timeout |-> plus_seconds(env.time, config.timeout)]

\* faulty variant: the deadline is the block time, the timeout is not added
ibc_execute_proposal_no_timeout(st, env, info, msg, config) ==
    IF config.owner # info.sender
    THEN Err("Unauthorized", st)
    ELSE IF has(st.PROPOSAL_STATE, msg.proposal_id)
    THEN ErrWith("ProposalAlreadyExists", <<msg.proposal_id>>, st)
    ELSE Ok([st EXCEPT !.PROPOSAL_STATE = save(@, msg.proposal_id, InProgress)],
            <<[SendPacket(env, msg, config) EXCEPT !.timeout = env.time]>>,
            <<<<"action", "ibc_execute">>, <<"channel", msg.channel_id>>>>)

\* faulty variant: only a proposal still in progress blocks its id
ibc_execute_proposal_resubmit(st, env, info, msg, config) ==
    IF config.owner # info.sender
    THEN Err("Unauthorized", st)
    ELSE IF has(st.PROPOSAL_STATE, msg.proposal_id)
            /\ st.PROPOSAL_STATE[msg.proposal_id] = InProgress
    THEN ErrWith("ProposalAlreadyExists", <<msg.proposal_id>>, st)
    ELSE Ok([st EXCEPT !.PROPOSAL_STATE = save(@, msg.proposal_id, InProgress)],
            <<SendPacket(env, msg, config)>>,
            <<<<"action", "ibc_execute">>, <<"channel", msg.channel_id>>>>)

\* faulty variant: the sender is not checked against the owner
ibc_execute_proposal_no_auth(st, env, info, msg, config) ==
    IF has(st.PROPOSAL_STATE, msg.proposal_id)
    THEN ErrWith("ProposalAlreadyExists", <<msg.proposal_id>>, st)
    ELSE Ok([st EXCEPT !.PROPOSAL_STATE = save(@, msg.proposal_id, InProgress)],
            <<SendPacket(env, msg, config)>>,
            <<<<"action", "ibc_execute">>, <<"channel", msg.channel_id>>>>)

\* faulty variant: the map is overwritten with the new entry alone
ibc_execute_proposal_overwrite(st, env, info, msg, config) ==
    IF config.owner # info.sender
    THEN Err("Unauthorized", st)
    ELSE IF has(st.PROPOSAL_STATE, msg.proposal_id)
    THEN ErrWith("ProposalAlreadyExists", <<msg.proposal_id>>, st)
    ELSE Ok([st EXCEPT !.PROPOSAL_STATE = msg.proposal_id :> InProgress],
            <<SendPacket(env, msg, config)>>,
            <<<<"action", "ibc_execute">>, <<"channel", msg.channel_id>>>>)

\* faulty variant: an id that has an entry is dispatched again
ibc_execute_proposal_no_dup_check(st, env, info, msg, config) ==
    IF config.owner # info.sender
    THEN Err("Unauthorized", st)
    ELSE Ok([st EXCEPT !.PROPOSAL_STATE = save(@, msg.proposal_id, InProgress)],
            <<SendPacket(env, msg, config)>>,
            <<<<"action", "ibc_execute">>, <<"channel", msg.channel_id>>>>)

\* faulty variant: the packet is sent but the proposal is not recorded
ibc_execute_proposal_no_save(st, env, info, msg, config) ==
    IF config.owner # info.sender
    THEN Err("Unauthorized", st)
    ELSE IF has(st.PROPOSAL_STATE, msg.proposal_id)
    THEN ErrWith("ProposalAlreadyExists", <<msg.proposal_id>>, st)
    ELSE Ok(st,
            <<SendPacket(env, msg, config)>>,
            <<<<"action", "ibc_execute">>, <<"channel", msg.channel_id>>>>)

\* faulty variant: the duplicate check comes before the owner check
ibc_execute_proposal_dup_first(st, env, info, msg, config) ==
    IF has(st.PROPOSAL_STATE, msg.proposal_id)
    THEN ErrWith("ProposalAlreadyExists", <<msg.proposal_id>>, st)
    ELSE IF config.owner # info.sender
    THEN Err("Unauthorized", st)
    ELSE Ok([st EXCEPT !.PROPOSAL_STATE = save(@, msg.proposal_id, InProgress)],
            <<SendPacket(env, msg, config)>>,
            <<<<"action", "ibc_execute">>, <<"channel", msg.channel_id>>>>)

ibc_execute_proposal(st, env, info, msg, config) ==
    IF config.owner # info.sender
    THEN Err("Unauthorized", st)
    ELSE IF has(st.PROPOSAL_STATE, msg.proposal_id)
    THEN ErrWith("ProposalAlreadyExists", <<msg.proposal_id>>, st)
    ELSE LET ibc_msg == SendPacket(env, msg, config)
             s1 == [st EXCEPT !.PROPOSAL_STATE =
                        save(@, msg.proposal_id, InProgress)]
         IN  Ok(s1,
                <<ibc_msg>>,
                <<<<"action", "ibc_execute">>, <<"channel", msg.channel_id>>>>)

\* faulty variant: the sender is handed to propose_new_owner as the current owner
execute_propose_as_sender(st, env, info, msg) ==
    IF ~IsSome(st.CONFIG)
    THEN Err("Std(NotFound)", st)
    ELSE LET config == Unwrap(st.CONFIG)
         IN  CASE msg.type = "ibc_execute_proposal" ->
                      ibc_execute_proposal(st, env, info, msg, config)
               [] msg.type = "propose_new_owner" ->
                      propose_new_owner(st, info, env, msg.owner,
                                        msg.expires_in, info.sender)
               [] msg.type = "drop_ownership_proposal" ->
                      drop_ownership_proposal(st, info, config.owner)
               [] msg.type = "claim_ownership" ->
                      claim_ownership(st, info, env)

\* faulty variant: config.timeout is handed to propose_new_owner as expires_in
execute_propose_timeout_as_expiry(st, env, info, msg) ==
    IF ~IsSome(st.CONFIG)
    THEN Err("Std(NotFound)", st)
    ELSE LET config == Unwrap(st.CONFIG)
         IN  CASE msg.type = "ibc_execute_proposal" ->
                      ibc_execute_proposal(st, env, info, msg, config)
               [] msg.type = "propose_new_owner" ->
                      propose_new_owner(st, info, env, msg.owner,
                                        config.timeout, config.owner)
               [] msg.type = "drop_ownership_proposal" ->
                      drop_ownership_proposal(st, info, config.owner)
               [] msg.type = "claim_ownership" ->
                      claim_ownership(st, info, env)

\* faulty variant: DropOwnershipProposal is dispatched to claim_ownership
execute_drop_as_claim(st, env, info, msg) ==
    IF ~IsSome(st.CONFIG)
    THEN Err("Std(NotFound)", st)
    ELSE LET config == Unwrap(st.CONFIG)
         IN  CASE msg.type = "ibc_execute_proposal" ->
                      ibc_execute_proposal(st, env, info, msg, config)
               [] msg.type = "propose_new_owner" ->
                      propose_new_owner(st, info, env, msg.owner,
                                        msg.expires_in, config.owner)
               [] msg.type = "drop_ownership_proposal" ->
                      claim_ownership(st, info, env)
               [] msg.type = "claim_ownership" ->
                      claim_ownership(st, info, env)

execute(st, env, info, msg) ==
    IF ~IsSome(st.CONFIG)
    THEN Err("Std(NotFound)", st)
    ELSE LET config == Unwrap(st.CONFIG)
         IN  CASE msg.type = "ibc_execute_proposal" ->
                      ibc_execute_proposal(st, env, info, msg, config)
               [] msg.type = "propose_new_owner" ->
                      propose_new_owner(st, info, env, msg.owner,
                                        msg.expires_in, config.owner)
               [] msg.type = "drop_ownership_proposal" ->
                      drop_ownership_proposal(st, info, config.owner)
               [] msg.type = "claim_ownership" ->
                      claim_ownership(st, info, env)

(***************************************************************************)
(* The transport callbacks (section 4.3 of the design): an acknowledgement *)
(* or a timeout settles an InProgress proposal; an unknown id is ignored,  *)
(* and so is a callback for a proposal that is already settled.  A failed  *)
(* acknowledgement carries the remote error, kept in LAST_ERROR.           *)
(***************************************************************************)
\* faulty variant: the acknowledgement overwrites whatever state is stored
onAcknowledge_overwrites(st, id, success, error) ==
    IF ~has(st.PROPOSAL_STATE, id)
    THEN Ok(st, <<>>, <<>>)
    ELSE IF success
    THEN Ok([st EXCEPT !.PROPOSAL_STATE = save(@, id, Succeed)], <<>>, <<>>)
    ELSE Ok([st EXCEPT !.PROPOSAL_STATE = save(@, id, Failed),
                       !.LAST_ERROR = Some(error)], <<>>, <<>>)

onAcknowledge(st, id, success, error) ==
    IF ~has(st.PROPOSAL_STATE, id) \/ st.PROPOSAL_STATE[id] # InProgress
    THEN Ok(st, <<>>, <<>>)
    ELSE IF success
    THEN Ok([st EXCEPT !.PROPOSAL_STATE = save(@, id, Succeed)], <<>>, <<>>)
    ELSE Ok([st EXCEPT !.PROPOSAL_STATE = save(@, id, Failed),
                       !.LAST_ERROR = Some(error)], <<>>, <<>>)

\* faulty variant: a timeout for an unknown id records a failed proposal
onTimeout_creates(st, id) ==
    IF has(st.PROPOSAL_STATE, id) /\ st.PROPOSAL_STATE[id] # InProgress
    THEN Ok(st, <<>>, <<>>)
    ELSE Ok([st EXCEPT !.PROPOSAL_STATE = save(@, id, Failed)], <<>>, <<>>)

onTimeout(st, id) ==
    IF ~has(st.PROPOSAL_STATE, id) \/ st.PROPOSAL_STATE[id] # InProgress
    THEN Ok(st, <<>>, <<>>)
    ELSE Ok([st EXCEPT !.PROPOSAL_STATE = save(@, id, Failed)], <<>>, <<>>)

(***************************************************************************)
(* query                                                                   *)
(***************************************************************************)
\* to_binary(&state) / to_binary(&error): the JSON text of one value
to_binary_value(v) == <<"json", v>>

query(st, msg) ==
    CASE msg.type = "proposal_state" ->
             IF ~has(st.PROPOSAL_STATE, msg.id)
             THEN Err("Std(NotFound)", st)
             ELSE OkBinary(st, to_binary_value(st.PROPOSAL_STATE[msg.id]))
      [] msg.type = "last_error" ->
             IF ~IsSome(st.LAST_ERROR)
             THEN Err("Std(NotFound)", st)
             ELSE OkBinary(st, to_binary_value(Unwrap(st.LAST_ERROR)))

(***************************************************************************)
(* migrate                                                                 *)
(***************************************************************************)
\* crate::migration::migrate_config: reads the predecessor's config record
\* and stores the current one with the same owner and timeout
migrate_config(st) ==
    IF ~IsSome(st.CONFIG)
    THEN Err("Std(NotFound)", st)
    ELSE LET old == Unwrap(st.CONFIG)
         IN  Ok([st EXCEPT !.CONFIG =
                    Some([owner |-> old.owner, timeout |-> old.timeout])],
                <<>>, <<>>)

\* faulty variant: the version tag is not updated after the migration
migrate_keeps_tag(st) ==
    IF ~IsSome(st.contract_info)
    THEN Err("Std(NotFound)", st)
    ELSE LET contract_version == Unwrap(st.contract_info)
             migrated ==
                 IF contract_version.contract = "ibc-controller"
                 THEN IF contract_version.version = "0.1.0"
                      THEN migrate_config(st)
                      ELSE Err("MigrationError", st)
                 ELSE Err("MigrationError", st)
         IN  IF migrated.err # "ok"
             THEN migrated
             ELSE Ok(migrated.storage,
                     <<>>,
                     <<<<"previous_contract_name", contract_version.contract>>,
                       <<"previous_contract_version", contract_version.version>>,
                       <<"new_contract_name", CONTRACT_NAME>>,
                       <<"new_contract_version", CONTRACT_VERSION>>>>)

\* faulty variant: every version of the contract is taken as migratable
migrate_any_version(st) ==
    IF ~IsSome(st.contract_info)
    THEN Err("Std(NotFound)", st)
    ELSE LET contract_version == Unwrap(st.contract_info)
             migrated ==
                 IF contract_version.contract = "ibc-controller"
                 THEN migrate_config(st)
                 ELSE Err("MigrationError", st)
         IN  IF migrated.err # "ok"
             THEN migrated
             ELSE Ok(set_contract_version(migrated.storage,
                                          CONTRACT_NAME, CONTRACT_VERSION),
                     <<>>,
                     <<<<"previous_contract_name", contract_version.contract>>,
                       <<"previous_contract_version", contract_version.version>>,
                       <<"new_contract_name", CONTRACT_NAME>>,
                       <<"new_contract_version", CONTRACT_VERSION>>>>)

migrate(st) ==
    IF ~IsSome(st.contract_info)
    THEN Err("Std(NotFound)", st)
    ELSE LET contract_version == Unwrap(st.contract_info)
             migrated ==
                 IF contract_version.contract = "ibc-controller"
                 THEN IF contract_version.version = "0.1.0"
                      THEN migrate_config(st)
                      ELSE Err("MigrationError", st)
                 ELSE Err("MigrationError", st)
         IN  IF migrated.err # "ok"
             THEN migrated
             ELSE Ok(set_contract_version(migrated.storage,
                                          CONTRACT_NAME, CONTRACT_VERSION),
                     <<>>,
                     <<<<"previous_contract_name", contract_version.contract>>,
                       <<"previous_contract_version", contract_version.version>>,
                       <<"new_contract_name", CONTRACT_NAME>>,
                       <<"new_contract_version", CONTRACT_VERSION>>>>)

(***************************************************************************)
(* The state machine.                                                      *)
(*   storage  the contract's persisted state                               *)
(*   now      env.block.time, in seconds                                   *)
(*   last     the last invocation of the current block: entry point,       *)
(*            sender, message, and the error, packets and attributes it    *)
(*            returned (NoCall when the block has had none)                *)
(*   emitted  per proposal id, the packets the host has sent for it        *)
(***************************************************************************)
NoCall == [op |-> "none", sender |-> "", msg |-> [type |-> "none"],
           err |-> "ok", err_data |-> <<>>, messages |-> <<>>,
           attributes |-> <<>>, data |-> <<>>]

\* a deployment of a predecessor version, about to be migrated
LegacyStorage(tag) ==
    [EmptyStorage EXCEPT
        !.CONFIG = Some([owner |-> "owner", timeout |-> TEST_TIMEOUT]),
        !.contract_info = Some(tag)]

\* a contract exists at the address once an instantiation has committed, or
\* a predecessor was deployed there
Exists == IsSome(storage.contract_info)

\* this code runs at the address once its instantiate or its migrate has
\* committed, both of which leave the current version tag; until then a
\* predecessor's storage is only ever handed to migrate
Running == storage.contract_info
             = Some([contract |-> CONTRACT_NAME, version |-> CONTRACT_VERSION])

PacketsFor(msgs, id) ==
    Cardinality({k \in 1..Len(msgs) : from_binary(msgs[k].data).id = id})

\* one invocation: the host commits or discards the writes, sends the
\* packets of a successful response, and the call is recorded
Invoke(op, sender, msg, res) ==
    /\ storage' = HostCommit(res, storage)
    /\ last' = [op |-> op, sender |-> sender, msg |-> msg, err |-> res.err,
                err_data |-> res.err_data, messages |-> res.messages,
                attributes |-> res.attributes, data |-> res.data]
    /\ emitted' = [i \in ProposalIds |-> emitted[i] + PacketsFor(res.messages, i)]
    /\ UNCHANGED now

Init ==
    /\ storage \in {EmptyStorage} \cup {LegacyStorage(t) : t \in LegacyVersions}
    /\ now = 0
    /\ last = NoCall
    /\ emitted = [i \in ProposalIds |-> 0]

Tick ==
    /\ now < MaxTime
    /\ now' = now + 1
    /\ last' = NoCall
    /\ UNCHANGED <<storage, emitted>>

Instantiate ==
    /\ ~Exists
    /\ \E sender \in Addrs, owner \in {"owner", "alice", BadAddr},
          timeout \in TimeoutInputs :
          LET msg == [owner |-> owner, timeout |-> timeout]
          IN  Invoke("instantiate", sender, msg, instantiate(storage, msg))

Execute(msg, sender) ==
    Invoke(msg.type, sender, msg,
           execute(storage, [time |-> now], [sender |-> sender], msg))

IbcExecuteProposal ==
    /\ Running
    /\ \E sender \in Addrs, proposal_id \in ProposalIds, in \in SubmitInputs :
          Execute([type |-> "ibc_execute_proposal", channel_id |-> in.channel_id,
                   proposal_id |-> proposal_id, messages |-> in.messages],
                  sender)

ProposeNewOwner ==
    /\ Running
    /\ \E sender \in Addrs, owner \in Addrs \cup {BadAddr},
          expires_in \in 0..MaxExpires :
          Execute([type |-> "propose_new_owner", owner |-> owner,
                   expires_in |-> expires_in], sender)

DropOwnershipProposal ==
    /\ Running
    /\ \E sender \in Addrs :
          Execute([type |-> "drop_ownership_proposal"], sender)

ClaimOwnership ==
    /\ Running
    /\ \E sender \in Addrs :
          Execute([type |-> "claim_ownership"], sender)

PacketAck ==
    /\ Running
    /\ \E id \in ProposalIds, success \in BOOLEAN, error \in AckErrors :
          LET msg == [type |-> "packet_ack", id |-> id, success |-> success,
                      error |-> error]
          IN  Invoke("packet_ack", "", msg,
                     onAcknowledge(storage, id, success, error))

PacketTimeout ==
    /\ Running
    /\ \E id \in ProposalIds :
          Invoke("packet_timeout", "", [type |-> "packet_timeout", id |-> id],
                 onTimeout(storage, id))

Migrate ==
    /\ Exists
    /\ Invoke("migrate", "", [type |-> "migrate"], migrate(storage))

Query ==
    /\ Running
    /\ \E msg \in {[type |-> "proposal_state", id |-> i] : i \in ProposalIds}
                  \cup {[type |-> "last_error"]} :
          Invoke("query", "", msg, query(storage, msg))

Next ==
    \/ Tick
    \/ Instantiate
    \/ IbcExecuteProposal
    \/ ProposeNewOwner
    \/ DropOwnershipProposal
    \/ ClaimOwnership
    \/ PacketAck
    \/ PacketTimeout
    \/ Migrate
    \/ Query

Spec == Init /\ [][Next]_vars

\* the contract deployed by its own instantiate, with no predecessor
InitFresh == Init /\ storage = EmptyStorage

SpecFresh == InitFresh /\ [][Next]_vars

(***************************************************************************)
(* Properties.  A step's pre-state is the unprimed storage; the call that  *)
(* made the step and what it returned are in last'.                        *)
(***************************************************************************)
\* Config.owner of a storage that holds a Config
Owner(st) == Unwrap(st.CONFIG).owner
Timeout(st) == Unwrap(st.CONFIG).timeout
Terminal == {Succeed, Failed}

\* C1: a submit (IbcExecuteProposal) by the current owner with an id that has
\* no entry succeeds, returns exactly one packet, to the given channel, whose
\* payload decodes to {id, messages} with the messages in the caller's order
\* and whose deadline is the block time plus Config.timeout, and leaves
\* id -> InProgress in the proposal map.
C1_SubmitDispatches ==
    [][(/\ last'.op = "ibc_execute_proposal"
        /\ last'.sender = Owner(storage)
        /\ ~has(storage.PROPOSAL_STATE, last'.msg.proposal_id))
       => LET msg == last'.msg
          IN  /\ last'.err = "ok"
              /\ Len(last'.messages) = 1
              /\ last'.messages[1].channel_id = msg.channel_id
              /\ from_binary(last'.messages[1].data)
                    = [id |-> msg.proposal_id, messages |-> msg.messages]
              /\ last'.messages[1].timeout = now + Timeout(storage)
              /\ has(storage'.PROPOSAL_STATE, msg.proposal_id)
              /\ storage'.PROPOSAL_STATE[msg.proposal_id] = InProgress
              /\ emitted'[msg.proposal_id] = emitted[msg.proposal_id] + 1]_vars

\* a two-message proposal was dispatched at a block time after 0
C1_Witness ==
    /\ last.op = "ibc_execute_proposal"
    /\ last.err = "ok"
    /\ now > 0
    /\ last.msg.messages = <<"m2", "m1">>
    /\ Len(last.messages) = 1
    /\ from_binary(last.messages[1].data).messages = <<"m2", "m1">>
    /\ storage.PROPOSAL_STATE[last.msg.proposal_id] = InProgress

\* C2: a submit by the owner with an id that already has an entry, whatever
\* the entry's state, fails with ProposalAlreadyExists{id} (the spec's
\* DuplicateProposal), returns no packet and changes no persisted state.
C2_DuplicateRejected ==
    [][(/\ last'.op = "ibc_execute_proposal"
        /\ last'.sender = Owner(storage)
        /\ has(storage.PROPOSAL_STATE, last'.msg.proposal_id))
       => /\ last'.err = "ProposalAlreadyExists"
          /\ last'.err_data = <<last'.msg.proposal_id>>
          /\ last'.messages = <<>>
          /\ storage' = storage
          /\ emitted' = emitted]_vars

\* the id of a failed proposal was submitted again, and rejected
C2_Witness ==
    /\ last.op = "ibc_execute_proposal"
    /\ last.err = "ProposalAlreadyExists"
    /\ storage.PROPOSAL_STATE[last.msg.proposal_id] = Failed

\* C3: once a proposal's state is Succeed or Failed, no onAcknowledge or
\* onTimeout for that id changes it.
C3_TerminalIsFinal ==
    [][\A i \in ProposalIds :
          (/\ has(storage.PROPOSAL_STATE, i)
           /\ storage.PROPOSAL_STATE[i] \in Terminal
           /\ last'.op \in {"packet_ack", "packet_timeout"}
           /\ last'.msg.id = i)
          => /\ has(storage'.PROPOSAL_STATE, i)
             /\ storage'.PROPOSAL_STATE[i] = storage.PROPOSAL_STATE[i]]_vars

\* a timeout was delivered for a proposal that had succeeded
C3_Witness ==
    /\ last.op = "packet_timeout"
    /\ has(storage.PROPOSAL_STATE, last.msg.id)
    /\ storage.PROPOSAL_STATE[last.msg.id] = Succeed

C5_ClaimWithinExpiry ==
    [][/\ (last'.op = "propose_new_owner" /\ last'.err = "ok")
          => storage'.OWNERSHIP_PROPOSAL
               = Some([owner |-> last'.msg.owner,
                       ttl |-> now + last'.msg.expires_in])
       /\ (/\ last'.op = "claim_ownership"
           /\ IsSome(storage.OWNERSHIP_PROPOSAL)
           /\ last'.sender = Unwrap(storage.OWNERSHIP_PROPOSAL).owner)
          => IF now > Unwrap(storage.OWNERSHIP_PROPOSAL).ttl
             THEN /\ last'.err = "ExpiredProposal"
                  /\ storage' = storage
             ELSE /\ last'.err = "ok"
                  /\ storage' = [storage EXCEPT
                        !.CONFIG = Some([owner |-> last'.sender,
                                         timeout |-> Timeout(storage)]),
                        !.OWNERSHIP_PROPOSAL = None]]_vars

\* a candidate proposed at block time 0 claimed at a later block time and is
\* now the owner
C5_Witness ==
    /\ last.op = "claim_ownership"
    /\ last.err = "ok"
    /\ now > 0
    /\ Owner(storage) = last.sender
    /\ ~IsSome(storage.OWNERSHIP_PROPOSAL)

\* C6: an instantiation with a timeout outside [MIN_TIMEOUT, MAX_TIMEOUT]
\* fails with TimeoutLimitsError (the spec's InvalidTimeout); with a timeout
\* inside the range and a well-formed owner it succeeds and the stored
\* Config.timeout is the supplied value.
C6_TimeoutLimits ==
    last.op = "instantiate"
    => IF last.msg.timeout < 1 \/ last.msg.timeout > 31556926
       THEN last.err = "TimeoutLimitsError"
       ELSE addr_validate(last.msg.owner)
            => /\ last.err = "ok"
               /\ IsSome(storage.CONFIG)
               /\ Timeout(storage) = last.msg.timeout

\* an instantiation with the largest allowed timeout succeeded
C6_Witness ==
    /\ last.op = "instantiate"
    /\ last.msg.timeout = 31556926
    /\ last.err = "ok"
    /\ Timeout(storage) = 31556926

\* the one (name, version) pair migrate accepts
IsSupportedMigration(tag) ==
    tag = [contract |-> "ibc-controller", version |-> "0.1.0"]
CurrentTag == [contract |-> CONTRACT_NAME, version |-> CONTRACT_VERSION]

\* C7: a migration from a supported (name, version) pair succeeds, keeps
\* Config.owner and Config.timeout and sets the version tag to the current
\* version; from any other pair it fails with MigrationError (the spec's
\* UnsupportedMigration) and changes no persisted state.
C7_Migration ==
    [][(last'.op = "migrate" /\ IsSome(storage.contract_info))
       => IF IsSupportedMigration(Unwrap(storage.contract_info))
          THEN /\ last'.err = "ok"
               /\ Owner(storage') = Owner(storage)
               /\ Timeout(storage') = Timeout(storage)
               /\ storage'.contract_info = Some(CurrentTag)
          ELSE /\ last'.err = "MigrationError"
               /\ storage' = storage]_vars

\* a predecessor deployment was migrated
C7_Witness ==
    /\ last.op = "migrate"
    /\ last.err = "ok"
    /\ now > 0
    /\ storage.contract_info = Some(CurrentTag)
    /\ Timeout(storage) = TEST_TIMEOUT
    /\ Owner(storage) = "owner"

\* C8: migrate on a storage whose version tag is already the current version
\* fails with MigrationError and changes no persisted state.
C8_MigrateTwiceRejected ==
    [][(last'.op = "migrate" /\ storage.contract_info = Some(CurrentTag))
       => (last'.err = "MigrationError" /\ storage' = storage)]_vars

\* a migrated predecessor deployment (the only storages with TEST_TIMEOUT)
\* was used, then migrated again, and the second migration was rejected
C8_Witness ==
    /\ last.op = "migrate"
    /\ last.err = "MigrationError"
    /\ storage.contract_info = Some(CurrentTag)
    /\ Timeout(storage) = TEST_TIMEOUT
    /\ storage.PROPOSAL_STATE # EmptyMap

\* C9: no step removes an entry of the proposal map.
C9_AppendOnly ==
    [][\A i \in ProposalIds :
          has(storage.PROPOSAL_STATE, i) => has(storage'.PROPOSAL_STATE, i)]_vars

\* both ids have an entry, one of them settled, after a change of owner and a
\* second submit
C9_Witness ==
    /\ last.op = "ibc_execute_proposal"
    /\ last.err = "ok"
    /\ Owner(storage) # "owner"
    /\ DOMAIN storage.PROPOSAL_STATE = {1, 2}
    /\ \E i \in {1, 2} : storage.PROPOSAL_STATE[i] \in Terminal

\* C10: for an id whose state is InProgress, onAcknowledge(id, TRUE) sets it
\* to Succeed, onAcknowledge(id, FALSE) and onTimeout(id) set it to Failed;
\* for an id without an entry either callback creates no entry and changes
\* no persisted state.
C10_Callbacks ==
    [][(last'.op \in {"packet_ack", "packet_timeout"})
       => LET i == last'.msg.id
          IN  IF ~has(storage.PROPOSAL_STATE, i)
              THEN storage' = storage
              ELSE storage.PROPOSAL_STATE[i] = InProgress
                   => /\ has(storage'.PROPOSAL_STATE, i)
                      /\ storage'.PROPOSAL_STATE[i]
                           = IF last'.op = "packet_ack" /\ last'.msg.success
                             THEN Succeed
                             ELSE Failed]_vars

\* a failed acknowledgement settled one proposal while a callback-free id
\* stayed without an entry
C10_Witness ==
    /\ last.op = "packet_ack"
    /\ ~last.msg.success
    /\ has(storage.PROPOSAL_STATE, last.msg.id)
    /\ storage.PROPOSAL_STATE[last.msg.id] = Failed
    /\ DOMAIN storage.PROPOSAL_STATE # ProposalIds

\* the "none" marker of the lastError query: the JSON text of an absent value
NoneMarker == to_binary_value("null")

\* C11: the lastError query succeeds in every state: it returns the "none"
\* marker when no error record is stored, and the stored error otherwise.
C11_LastErrorQuery ==
    (last.op = "query" /\ last.msg.type = "last_error")
    => /\ last.err = "ok"
       /\ last.data = IF IsSome(storage.LAST_ERROR)
                      THEN to_binary_value(Unwrap(storage.LAST_ERROR))
                      ELSE NoneMarker

\* C12: Config.timeout never changes once it is stored: every step of
\* submit, proposeNewOwner, dropOwnershipProposal, claimOwnership, the
\* callbacks and migrate keeps the Config and its timeout, and the timeout is
\* within [MIN_TIMEOUT, MAX_TIMEOUT] in every reachable state.
C12_TimeoutImmutable ==
    /\ [](IsSome(storage.CONFIG)
          => MIN_TIMEOUT <= Timeout(storage) /\ Timeout(storage) <= MAX_TIMEOUT)
    /\ [][IsSome(storage.CONFIG)
          => /\ IsSome(storage'.CONFIG)
             /\ Timeout(storage') = Timeout(storage)]_vars

C12_Witness ==
    /\ last.op = "claim_ownership"
    /\ last.err = "ok"
    /\ Owner(storage) = last.sender
    /\ Timeout(storage) = MAX_TIMEOUT

\* C13: at most one ownership proposal is live.  An accepted proposeNewOwner
\* leaves exactly its own {candidate, block time + expires_in} stored,
\* whatever was stored before; a claimOwnership by anyone other than the
\* stored candidate fails and changes nothing; a proposeNewOwner naming the
\* current owner as candidate is rejected and changes nothing.
C13_OneLiveProposal ==
    [][/\ (last'.op = "propose_new_owner" /\ last'.err = "ok")
          => storage'.OWNERSHIP_PROPOSAL
               = Some([owner |-> last'.msg.owner,
                       ttl |-> now + last'.msg.expires_in])
       /\ (/\ last'.op = "claim_ownership"
           /\ IsSome(storage.OWNERSHIP_PROPOSAL)
           /\ Unwrap(storage.OWNERSHIP_PROPOSAL).owner # last'.sender)
          => last'.err # "ok" /\ storage' = storage
       /\ (/\ last'.op = "propose_new_owner"
           /\ last'.sender = Owner(storage)
           /\ last'.msg.owner = Owner(storage))
          => last'.err # "ok" /\ storage' = storage]_vars

C13_Witness ==
    /\ last.op = "claim_ownership"
    /\ last.err = "Unauthorized"
    /\ IsSome(storage.OWNERSHIP_PROPOSAL)
    /\ Unwrap(storage.OWNERSHIP_PROPOSAL).ttl = now + 1
    /\ last.sender \notin {Owner(storage),
                           Unwrap(storage.OWNERSHIP_PROPOSAL).owner}

\* C14: a dropOwnershipProposal by the owner succeeds and leaves no ownership
\* proposal stored, changing nothing else (so nothing at all when none was
\* stored); with no proposal stored a claimOwnership fails and changes
\* nothing, Config.owner included.
C14_Drop ==
    [][/\ (last'.op = "drop_ownership_proposal" /\ last'.sender = Owner(storage))
          => /\ last'.err = "ok"
             /\ storage' = [storage EXCEPT !.OWNERSHIP_PROPOSAL = None]
       /\ (last'.op = "claim_ownership" /\ ~IsSome(storage.OWNERSHIP_PROPOSAL))
          => /\ last'.err # "ok"
             /\ storage' = storage]_vars

C14_Witness ==
    /\ last.op = "drop_ownership_proposal"
    /\ last.err = "ok"
    /\ last.sender = Owner(storage)
    /\ ~IsSome(storage.OWNERSHIP_PROPOSAL)
    /\ now > 0

\* C15: Config.owner changes only through a successful claimOwnership.  A
\* step that changes the owner is an accepted claimOwnership, sent by the
\* candidate of the stored proposal no later than its expiry, that makes the
\* candidate the owner and removes the proposal (so it cannot be claimed
\* again); and a proposal comes to be stored only by an accepted
\* proposeNewOwner sent by the then-current owner.
C15_OwnerByClaimOnly ==
    [][IsSome(storage.CONFIG)
       => /\ Owner(storage') # Owner(storage)
             => /\ last'.op = "claim_ownership"
                /\ last'.err = "ok"
                /\ IsSome(storage.OWNERSHIP_PROPOSAL)
                /\ Unwrap(storage.OWNERSHIP_PROPOSAL).owner = last'.sender
                /\ now <= Unwrap(storage.OWNERSHIP_PROPOSAL).ttl
                /\ Owner(storage') = last'.sender
          /\ (last'.op = "claim_ownership" /\ last'.err = "ok")
             => ~IsSome(storage'.OWNERSHIP_PROPOSAL)
          /\ (/\ storage'.OWNERSHIP_PROPOSAL # storage.OWNERSHIP_PROPOSAL
              /\ IsSome(storage'.OWNERSHIP_PROPOSAL))
             => /\ last'.op = "propose_new_owner"
                /\ last'.err = "ok"
                /\ last'.sender = Owner(storage)
                /\ Unwrap(storage'.OWNERSHIP_PROPOSAL).owner = last'.msg.owner]_vars

C15_Witness ==
    /\ last.op = "claim_ownership"
    /\ last.err = "ok"
    /\ Owner(storage) = last.sender
    /\ Owner(storage) # "owner"
    /\ Timeout(storage) = TEST_TIMEOUT
    /\ ~IsSome(storage.OWNERSHIP_PROPOSAL)

\* the commands a caller can send
CallerCommands == {"ibc_execute_proposal", "propose_new_owner",
                   "drop_ownership_proposal", "claim_ownership"}

\* C16: no command a caller can send cancels or completes a proposal: submit
\* (of any id), proposeNewOwner, dropOwnershipProposal and claimOwnership
\* leave every existing entry of the proposal map with the state it had.
C16_NoCancel ==
    [][last'.op \in CallerCommands
       => \A i \in DOMAIN storage.PROPOSAL_STATE :
             /\ has(storage'.PROPOSAL_STATE, i)
             /\ storage'.PROPOSAL_STATE[i] = storage.PROPOSAL_STATE[i]]_vars

C16_Witness ==
    /\ last.op = "ibc_execute_proposal"
    /\ last.err = "ok"
    /\ \E i \in DOMAIN storage.PROPOSAL_STATE :
          /\ i # last.msg.proposal_id
          /\ storage.PROPOSAL_STATE[i] = InProgress

\* C17: a rejected instantiation (timeout out of range or malformed owner)
\* leaves the persisted state as it was: no Config and no version tag is
\* stored, although instantiate writes the version tag before it validates.
C17_RejectedInstantiate ==
    [][(last'.op = "instantiate" /\ last'.err # "ok")
       => /\ storage' = storage
          /\ ~IsSome(storage'.CONFIG)
          /\ ~IsSome(storage'.contract_info)]_vars

C17_Witness ==
    /\ last.op = "instantiate"
    /\ last.err = "Std(InvalidAddress)"
    /\ last.msg.timeout = MIN_TIMEOUT
    /\ storage = EmptyStorage

\* C18: at most one packet is ever sent for an id, and an id has an entry in
\* the proposal map exactly when one packet was sent for it; a submit of an
\* id that has an entry sends nothing, whoever the owner is by then.
C18_OnePacketPerId ==
    /\ [](\A i \in ProposalIds :
             /\ emitted[i] <= 1
             /\ has(storage.PROPOSAL_STATE, i) <=> emitted[i] = 1)
    /\ [][(/\ last'.op = "ibc_execute_proposal"
           /\ has(storage.PROPOSAL_STATE, last'.msg.proposal_id))
          => /\ last'.err # "ok"
             /\ last'.messages = <<>>
             /\ emitted' = emitted]_vars

C18_Witness ==
    /\ last.op = "ibc_execute_proposal"
    /\ last.err = "ProposalAlreadyExists"
    /\ last.sender = Owner(storage)
    /\ Owner(storage) # "owner"
    /\ Timeout(storage) = TEST_TIMEOUT
    /\ emitted[last.msg.proposal_id] = 1

\* C19: in submit the owner check comes before the duplicate check: a
\* non-owner submitting an id that has an entry gets Unauthorized; in
\* instantiate the timeout check comes before the owner validation: a timeout
\* out of range with a malformed owner gets TimeoutLimitsError (the spec's
\* InvalidTimeout).
C19_CheckOrder ==
    [][/\ (/\ last'.op = "ibc_execute_proposal"
           /\ last'.sender # Owner(storage)
           /\ has(storage.PROPOSAL_STATE, last'.msg.proposal_id))
          => last'.err = "Unauthorized"
       /\ (/\ last'.op = "instantiate"
           /\ ~(MIN_TIMEOUT <= last'.msg.timeout
                /\ last'.msg.timeout <= MAX_TIMEOUT)
           /\ ~addr_validate(last'.msg.owner))
          => last'.err = "TimeoutLimitsError"]_vars

C19_Witness ==
    /\ last.op = "ibc_execute_proposal"
    /\ last.sender # Owner(storage)
    /\ has(storage.PROPOSAL_STATE, last.msg.proposal_id)
    /\ last.err = "Unauthorized"

\* C20: every packet a submit sends carries a deadline strictly later than
\* the block time of the submit and at most MAX_TIMEOUT seconds after it.
C20_Deadline ==
    last.op = "ibc_execute_proposal"
    => \A k \in 1..Len(last.messages) :
          /\ now < last.messages[k].timeout
          /\ last.messages[k].timeout <= now + MAX_TIMEOUT

C20_Witness ==
    /\ last.op = "ibc_execute_proposal"
    /\ Len(last.messages) = 1
    /\ now > 0
    /\ last.messages[1].timeout = now + MAX_TIMEOUT

====
